---- MODULE Spec2Model ----
(***************************************************************************)
(* Model of dw-610/visual-z-transform:                                     *)
(*   frequency_response.py  get_frequency_response(poles, zeros)           *)
(*   interactive.py         the interactive pole-zero editor (state dict,  *)
(*                          redraw, on_press, on_motion, on_release, onkey)*)
(*                                                                         *)
(* Numbers.  A complex number is a record [re, im, d] standing for the     *)
(* exact fraction (re + im*j)/d with d > 0 (not reduced: two records are   *)
(* the same number when CEq holds).  d = 0 is the one non-finite value     *)
(* (numpy's inf/nan results, which absorb every further operation here).   *)
(* Rounding of floating-point arithmetic is not modelled.                  *)
(*                                                                         *)
(* Grid.  The source samples np.linspace(-pi, pi, 1000).  The model keeps  *)
(* linspace as written and scales the sample count to NumSamples = 5, the  *)
(* largest count whose unit-circle points (-1, -j, 1, j, -1) are exact     *)
(* Gaussian integers.  Angles are integers in units of pi/(NumSamples-1).  *)
(***************************************************************************)
EXTENDS Integers, Sequences, FiniteSets, TLC

VARIABLES poles, zeros, log_scale, dragging, render, ev, gesture, call

vars == <<poles, zeros, log_scale, dragging, render, ev, gesture, call>>

\* ------------------------------------------------------------------------
\* Bounds of the model

\* At most this many poles and zeros together (inputs of a call, and the
\* editor's collections: a press that would add beyond it is not taken).
MaxRoots == 2

\* ------------------------------------------------------------------------
\* Exact complex arithmetic

NonFinite == [re |-> 0, im |-> 0, d |-> 0]

IsFinite(c) == c.d # 0

\* (re + im*j)/d, d >= 0; every d = 0 is the one non-finite value
Cx(re, im, d) ==
    IF d = 0 THEN NonFinite ELSE [re |-> re, im |-> im, d |-> d]

\* a and b are the same number
CEq(a, b) ==
    IF a.d = 0 \/ b.d = 0 THEN a.d = b.d
    ELSE a.re * b.d = b.re * a.d /\ a.im * b.d = b.im * a.d

\* the literal 1 (and 1.0) of the source
One == Cx(1, 0, 1)

CZero == Cx(0, 0, 1)

CSub(a, b) ==
    IF a.d = 0 \/ b.d = 0 THEN NonFinite
    ELSE Cx(a.re * b.d - b.re * a.d, a.im * b.d - b.im * a.d, a.d * b.d)

CMul(a, b) ==
    IF a.d = 0 \/ b.d = 0 THEN NonFinite
    ELSE Cx(a.re * b.re - a.im * b.im, a.re * b.im + a.im * b.re, a.d * b.d)

\* CDiv with a zero divisor answered by 0 (a guarded division) instead of
\* numpy's inf/nan
CDiv_GuardedZero(a, b) ==
    IF a.d = 0 \/ b.d = 0 THEN NonFinite
    ELSE IF b.re = 0 /\ b.im = 0 THEN CZero
    ELSE Cx((a.re * b.re + a.im * b.im) * b.d,
            (a.im * b.re - a.re * b.im) * b.d,
            a.d * (b.re * b.re + b.im * b.im))

\* numpy complex division: a zero divisor gives inf/nan (a RuntimeWarning, no
\* exception); a non-finite operand gives a non-finite result here.
CDiv(a, b) ==
    IF a.d = 0 \/ b.d = 0 THEN NonFinite
    ELSE IF b.re = 0 /\ b.im = 0 THEN NonFinite
    ELSE Cx((a.re * b.re + a.im * b.im) * b.d,
            (a.im * b.re - a.re * b.im) * b.d,
            a.d * (b.re * b.re + b.im * b.im))

\* squared modulus |c|^2 as a fraction [n, d] of integers (c finite)
AbsSq(c) == [n |-> c.re * c.re + c.im * c.im, d |-> c.d * c.d]

\* a < b for fractions [n, d] with positive denominators
FracLess(a, b) == a.n * b.d < b.n * a.d

\* abs(c) < t for a finite complex c and a positive real threshold t = [n, d]
AbsLess(c, t) == FracLess(AbsSq(c), [n |-> t.n * t.n, d |-> t.d * t.d])

\* ------------------------------------------------------------------------
\* frequency_response.py

\* A numpy value: shape <<>> is a Python float (0-d), shape <<n>> a 1-d array
\* of n elements.
Scalar(c) == [shape |-> <<>>, data |-> <<c>>]

NdArray(s) == [shape |-> <<Len(s)>>, data |-> s]

\* the sample count of np.linspace(-np.pi, np.pi, 1000), scaled (see above)
NumSamples == 5

\* np.linspace(-pi, pi, n): n evenly spaced angles, both ends included, each
\* an integer number of units of pi/(n-1)
linspace(n) == [i \in 1..n |-> 2 * (i - 1) - (n - 1)]

\* np.exp(1j * w) for an angle of k units of pi/4 (k even on the grid)
exp_j(k) ==
    LET q == (k \div 2) % 4
    IN  CASE q = 0 -> Cx(1, 0, 1)
          [] q = 1 -> Cx(0, 1, 1)
          [] q = 2 -> Cx(-1, 0, 1)
          [] q = 3 -> Cx(0, -1, 1)

\* convert = lambda pz: (1 - pz*(1/z)), z the array of unit-circle points
convert(pz, z) == [i \in 1..Len(z) |-> CSub(One, CMul(pz, CDiv(One, z[i])))]

\* np.prod(terms, axis=0) for a non-empty list of equally long arrays
RECURSIVE prod_column(_, _, _)
prod_column(terms, i, k) ==
    IF k = 0 THEN One ELSE CMul(prod_column(terms, i, k - 1), terms[k][i])

\* np.prod over terms[:-1]: the last factor left out
prod_SkipsLast(terms) ==
    [i \in 1..Len(terms[1]) |-> prod_column(terms, i, Len(terms) - 1)]

prod(terms) == [i \in 1..Len(terms[1]) |-> prod_column(terms, i, Len(terms))]

\* a / b with numpy broadcasting of a 0-d operand
divide(a, b) ==
    IF a.shape = <<>> /\ b.shape = <<>>
    THEN Scalar(CDiv(a.data[1], b.data[1]))
    ELSE LET n == IF a.shape # <<>> THEN a.shape[1] ELSE b.shape[1]
             at(x, i) == IF x.shape = <<>> THEN x.data[1] ELSE x.data[i]
         IN  NdArray([i \in 1..n |-> CDiv(at(a, i), at(b, i))])

\* get_frequency_response building its terms by popping the argument lists
\* empty (while poles: convert(poles.pop()) ...): same response, inputs consumed
get_frequency_response_Consuming(p, zs) ==
    LET w == linspace(NumSamples)
        z == [i \in 1..Len(w) |-> exp_j(w[i])]
        num_terms == [k \in 1..Len(zs) |-> convert(zs[k], z)]
        dnm_terms == [k \in 1..Len(p) |-> convert(p[k], z)]
        numerator == IF num_terms # <<>> THEN NdArray(prod(num_terms)) ELSE Scalar(One)
        denominator == IF dnm_terms # <<>> THEN NdArray(prod(dnm_terms)) ELSE Scalar(One)
    IN  [w |-> NdArray(w), H |-> divide(numerator, denominator),
         poles |-> <<>>, zeros |-> <<>>]

\* get_frequency_response(poles, zeros): the returned (w, H), and the contents
\* of the two argument lists when it returns (Python passes them by reference)
get_frequency_response(p, zs) ==
    LET w == linspace(NumSamples)
        z == [i \in 1..Len(w) |-> exp_j(w[i])]
        num_terms == [k \in 1..Len(zs) |-> convert(zs[k], z)]
        dnm_terms == [k \in 1..Len(p) |-> convert(p[k], z)]
        numerator == IF num_terms # <<>> THEN NdArray(prod(num_terms)) ELSE Scalar(One)
        denominator == IF dnm_terms # <<>> THEN NdArray(prod(dnm_terms)) ELSE Scalar(One)
    IN  [w |-> NdArray(w), H |-> divide(numerator, denominator),
         poles |-> p, zeros |-> zs]

\* the parameters of def get_frequency_response(poles: list, zeros: list)
Signature == <<"poles", "zeros">>

\* A Python call get_frequency_response(p, zs, *extra): argument binding fails
\* with a TypeError when more arguments are passed than the signature has.
Invoke(p, zs, extra) ==
    IF Len(<<p, zs>>) + Len(extra) > Len(Signature)
    THEN [poles |-> p, zeros |-> zs, extra |-> extra, outcome |-> "TypeError",
          w |-> Scalar(CZero), H |-> Scalar(CZero), poles_after |-> p, zeros_after |-> zs]
    ELSE LET r == get_frequency_response(p, zs)
         IN  [poles |-> p, zeros |-> zs, extra |-> extra, outcome |-> "returned",
              w |-> r.w, H |-> r.H, poles_after |-> r.poles, zeros_after |-> r.zeros]

NoCall ==
    [poles |-> <<>>, zeros |-> <<>>, extra |-> <<>>, outcome |-> "none",
     w |-> Scalar(CZero), H |-> Scalar(CZero), poles_after |-> <<>>, zeros_after |-> <<>>]

\* ------------------------------------------------------------------------
\* Inputs of the evaluator specification

\* pole and zero values passed to a direct call: 1, -1, j and -j lie on grid
\* points, 1/2 and the conjugate pair j/2, -j/2 lie off the grid, and one
\* value is non-finite
EvalValues ==
    {Cx(1, 0, 1), Cx(-1, 0, 1), Cx(0, 1, 1), Cx(0, -1, 1), Cx(1, 0, 2),
     Cx(0, 1, 2), Cx(0, -1, 2), NonFinite}

\* sample_count values a caller may try to pass
SampleCounts == {0, 1, NumSamples}

SeqsUpTo(S, n) == UNION {[1..k -> S] : k \in 0..n}

\* A caller (such as the __main__ script) calls the evaluator once.
Evaluate ==
    /\ call.outcome = "none"
    /\ \E p \in SeqsUpTo(EvalValues, MaxRoots) :
       \E zs \in SeqsUpTo(EvalValues, MaxRoots - Len(p)) :
       \E extra \in {<<>>} \cup {<<n>> : n \in SampleCounts} :
           call' = Invoke(p, zs, extra)
    /\ UNCHANGED <<poles, zeros, log_scale, dragging, render, ev, gesture>>

\* ------------------------------------------------------------------------
\* interactive.py

\* CLICK_THRESHOLD = 0.1
CLICK_THRESHOLD == [n |-> 1, d |-> 10]

\* the removal distance written as 0.1, the click threshold
RemoveDistance_AsClickThreshold == [n |-> 1, d |-> 10]

\* the literal 0.05 of on_release ("if distance_moved < 0.05")
RemoveDistance == [n |-> 1, d |-> 20]

\* state['dragging'] is None
NoDrag == [type |-> "none", index |-> 0, start_pos |-> CZero]

\* plot_frequency_response_on_axis(ax_freq, w, H, log=...): the curve drawn
\* on the frequency axes (magnitude of H over w, in dB when log is set)
plot_frequency_response_on_axis(w, H, log) ==
    [w |-> w, H |-> H, log |-> log, message |-> FALSE]

\* ax_freq.text(0.5, 0.5, 'Add poles/zeros to see frequency response', ...)
PlaceholderMessage(log) ==
    [w |-> Scalar(CZero), H |-> Scalar(CZero), log |-> log, message |-> TRUE]

\* picked coordinates (event.xdata + 1j*event.ydata): 0, 0.04 and 0.08 lie
\* within 0.05 or 0.1 of one another, j lies far from them and on the grid
Picks == {Cx(0, 0, 1), Cx(1, 0, 25), Cx(2, 0, 25), Cx(0, 1, 1)}

\* The responses of every model the editor can hold, tabulated once from
\* get_frequency_response (f @@ <<>> is f, as an explicit table)
EditorModels ==
    UNION {{<<p, zs>> : zs \in SeqsUpTo(Picks, MaxRoots - Len(p))} :
              p \in SeqsUpTo(Picks, MaxRoots)}

ResponseTable ==
    [a \in EditorModels |-> get_frequency_response(a[1], a[2])] @@ <<>>

\* w, H = get_frequency_response(state['poles'], state['zeros'])
evaluate(p, zs) ==
    IF <<p, zs>> \in EditorModels
    THEN ResponseTable[<<p, zs>>]
    ELSE get_frequency_response(p, zs)

\* redraw() calling get_frequency_response unconditionally, the placeholder
\* branch gone
redraw_AlwaysEvaluates(st) ==
    LET r == evaluate(st.poles, st.zeros)
    IN  [st EXCEPT
            !.render = [pole_markers |-> st.poles,
                        zero_markers |-> st.zeros,
                        evaluated |-> TRUE,
                        freq |-> plot_frequency_response_on_axis(r.w, r.H, st.log_scale)],
            !.poles = r.poles,
            !.zeros = r.zeros,
            !.redrawn = TRUE]

\* redraw(): clears both axes, plots the markers of the current collections,
\* evaluates the response when a pole or a zero exists and plots it, else
\* shows the placeholder.  st is the state dict with the figure (render) and
\* the handler's bookkeeping (redrawn, raised).
redraw(st) ==
    LET called == st.poles # <<>> \/ st.zeros # <<>>
        r == evaluate(st.poles, st.zeros)
    IN  [st EXCEPT
            !.render = [pole_markers |-> st.poles,
                        zero_markers |-> st.zeros,
                        evaluated |-> called,
                        freq |-> IF called
                                 THEN plot_frequency_response_on_axis(r.w, r.H, st.log_scale)
                                 ELSE PlaceholderMessage(st.log_scale)],
            !.poles = IF called THEN r.poles ELSE @,
            !.zeros = IF called THEN r.zeros ELSE @,
            !.redrawn = TRUE]

\* for i, x in enumerate(list): if abs(x - z_click) < CLICK_THRESHOLD: ...
\* the first such index (1-based here), 0 when the loop finds none
first_near(list, z_click) ==
    LET S == {i \in 1..Len(list) : AbsLess(CSub(list[i], z_click), CLICK_THRESHOLD)}
    IN  IF S = {} THEN 0 ELSE CHOOSE i \in S : \A k \in S : i <= k

\* list.pop(): the last element removed, whatever i
pop_Last(list, i) == [k \in 1..(Len(list) - 1) |-> list[k]]

\* list.pop(i) for a valid 1-based i
pop(list, i) == [k \in 1..(Len(list) - 1) |-> IF k < i THEN list[k] ELSE list[k + 1]]

\* an IndexError leaves the handler at once; the callback registry reports
\* it and the event loop goes on
IndexError(st) == [st EXCEPT !.raised = TRUE]

\* on_press without its first test (event.inaxes != ax_pz: return)
on_press_NoAxesCheck(st, event) ==
    IF event.button = 1 THEN
        LET i == first_near(st.poles, event.pos)
        IN  IF i # 0
            THEN [st EXCEPT !.dragging =
                     [type |-> "pole", index |-> i, start_pos |-> st.poles[i]]]
            ELSE redraw([st EXCEPT !.poles = Append(@, event.pos)])
    ELSE IF event.button = 3 THEN
        LET i == first_near(st.zeros, event.pos)
        IN  IF i # 0
            THEN [st EXCEPT !.dragging =
                     [type |-> "zero", index |-> i, start_pos |-> st.zeros[i]]]
            ELSE redraw([st EXCEPT !.zeros = Append(@, event.pos)])
    ELSE st

on_press(st, event) ==
    IF ~event.inaxes THEN st
    ELSE IF event.button = 1 THEN
        LET i == first_near(st.poles, event.pos)
        IN  IF i # 0
            THEN [st EXCEPT !.dragging =
                     [type |-> "pole", index |-> i, start_pos |-> st.poles[i]]]
            ELSE redraw([st EXCEPT !.poles = Append(@, event.pos)])
    ELSE IF event.button = 3 THEN
        LET i == first_near(st.zeros, event.pos)
        IN  IF i # 0
            THEN [st EXCEPT !.dragging =
                     [type |-> "zero", index |-> i, start_pos |-> st.zeros[i]]]
            ELSE redraw([st EXCEPT !.zeros = Append(@, event.pos)])
    ELSE st

\* on_motion without its closing redraw()
on_motion_NoRedraw(st, event) ==
    IF st.dragging.type = "none" THEN st
    ELSE IF ~event.inaxes THEN st
    ELSE LET drag_info == st.dragging
         IN  IF drag_info.type = "pole"
             THEN IF drag_info.index <= Len(st.poles)
                  THEN [st EXCEPT !.poles[drag_info.index] = event.pos]
                  ELSE IndexError(st)
             ELSE IF drag_info.index <= Len(st.zeros)
                  THEN [st EXCEPT !.zeros[drag_info.index] = event.pos]
                  ELSE IndexError(st)

on_motion(st, event) ==
    IF st.dragging.type = "none" THEN st
    ELSE IF ~event.inaxes THEN st
    ELSE LET drag_info == st.dragging
         IN  IF drag_info.type = "pole"
             THEN IF drag_info.index <= Len(st.poles)
                  THEN redraw([st EXCEPT !.poles[drag_info.index] = event.pos])
                  ELSE IndexError(st)
             ELSE IF drag_info.index <= Len(st.zeros)
                  THEN redraw([st EXCEPT !.zeros[drag_info.index] = event.pos])
                  ELSE IndexError(st)

\* on_release that only redraws, without restoring start_pos, when the
\* button is released outside the axes
on_release_NoRevert(st, event) ==
    IF st.dragging.type = "none" THEN st
    ELSE LET drag_info == st.dragging
             done(s) == [s EXCEPT !.dragging = NoDrag]
         IN  IF event.inaxes
             THEN IF AbsLess(CSub(event.pos, drag_info.start_pos), RemoveDistance)
                  THEN IF drag_info.type = "pole"
                       THEN IF drag_info.index <= Len(st.poles)
                            THEN done(redraw([st EXCEPT !.poles = pop(@, drag_info.index)]))
                            ELSE IndexError(st)
                       ELSE IF drag_info.index <= Len(st.zeros)
                            THEN done(redraw([st EXCEPT !.zeros = pop(@, drag_info.index)]))
                            ELSE IndexError(st)
                  ELSE done(st)
             ELSE done(redraw(st))

on_release(st, event) ==
    IF st.dragging.type = "none" THEN st
    ELSE LET drag_info == st.dragging
             done(s) == [s EXCEPT !.dragging = NoDrag]
         IN  IF event.inaxes
             THEN IF AbsLess(CSub(event.pos, drag_info.start_pos), RemoveDistance)
                  THEN IF drag_info.type = "pole"
                       THEN IF drag_info.index <= Len(st.poles)
                            THEN done(redraw([st EXCEPT !.poles = pop(@, drag_info.index)]))
                            ELSE IndexError(st)
                       ELSE IF drag_info.index <= Len(st.zeros)
                            THEN done(redraw([st EXCEPT !.zeros = pop(@, drag_info.index)]))
                            ELSE IndexError(st)
                  ELSE done(st)
             ELSE IF drag_info.type = "pole"
                  THEN IF drag_info.index <= Len(st.poles)
                       THEN done(redraw([st EXCEPT !.poles[drag_info.index] = drag_info.start_pos]))
                       ELSE IndexError(st)
                  ELSE IF drag_info.index <= Len(st.zeros)
                       THEN done(redraw([st EXCEPT !.zeros[drag_info.index] = drag_info.start_pos]))
                       ELSE IndexError(st)

onkey(st, event) ==
    IF event.key = "l" THEN redraw([st EXCEPT !.log_scale = ~@])
    ELSE IF event.key = "c" THEN redraw([st EXCEPT !.poles = <<>>, !.zeros = <<>>])
    ELSE st

\* ------------------------------------------------------------------------
\* Events and the state machine

\* an event whose inaxes is not ax_pz carries no position the handlers read
Event(kind, inaxes, button, pos, key) ==
    [kind |-> kind, inaxes |-> inaxes, button |-> button, pos |-> pos, key |-> key]

PressEvents ==
    {Event("press", TRUE, b, z, "") : b \in {1, 2, 3}, z \in Picks}
        \cup {Event("press", FALSE, b, CZero, "") : b \in {1, 2, 3}}

MotionEvents ==
    {Event("motion", TRUE, 0, z, "") : z \in Picks}
        \cup {Event("motion", FALSE, 0, CZero, "")}

ReleaseEvents ==
    {Event("release", TRUE, b, z, "") : b \in {1, 3}, z \in Picks}
        \cup {Event("release", FALSE, b, CZero, "") : b \in {1, 3}}

KeyEvents == {Event("key", FALSE, 0, CZero, k) : k \in {"l", "c", "x"}}

\* the state dict and the figure as a handler finds them
State ==
    [poles |-> poles, zeros |-> zeros, log_scale |-> log_scale,
     dragging |-> dragging, render |-> render, redrawn |-> FALSE, raised |-> FALSE]

\* the handler has run: r is what it left
Handled(event, r) ==
    /\ poles' = r.poles
    /\ zeros' = r.zeros
    /\ log_scale' = r.log_scale
    /\ dragging' = r.dragging
    /\ render' = r.render
    /\ ev' = [kind |-> event.kind, inaxes |-> event.inaxes, button |-> event.button,
              pos |-> event.pos, key |-> event.key,
              redrawn |-> r.redrawn, raised |-> r.raised]
    /\ UNCHANGED call

\* History of the current mouse gesture (not program state): the collections
\* as they were before the press that started the drag, that press, and
\* the motion events since (none, only outside the axes, some inside).  phase is "dragging" from such a press
\* while only motion events follow it, "released" right after the release
\* that ends such a run, and "none" otherwise.
NoGesture ==
    [phase |-> "none", poles |-> <<>>, zeros |-> <<>>,
     press |-> Event("press", FALSE, 0, CZero, ""), motion |-> "none"]

StartsDrag(event) ==
    /\ event.inaxes
    /\ \/ event.button = 1 /\ first_near(poles, event.pos) # 0
       \/ event.button = 3 /\ first_near(zeros, event.pos) # 0

\* the press appends a new pole or zero
Adds(event) ==
    /\ event.inaxes
    /\ \/ event.button = 1 /\ first_near(poles, event.pos) = 0
       \/ event.button = 3 /\ first_near(zeros, event.pos) = 0

Press ==
    \E event \in PressEvents :
        /\ Adds(event) => Len(poles) + Len(zeros) < MaxRoots
        /\ Handled(event, on_press(State, event))
        /\ gesture' = IF StartsDrag(event)
                      THEN [phase |-> "dragging", poles |-> poles, zeros |-> zeros,
                            press |-> event, motion |-> "none"]
                      ELSE NoGesture

Motion ==
    \E event \in MotionEvents :
        /\ Handled(event, on_motion(State, event))
        /\ gesture' = IF gesture.phase = "dragging"
                      THEN [gesture EXCEPT !.motion = IF event.inaxes THEN "inside"
                                                   ELSE IF @ = "none" THEN "outside" ELSE @]
                      ELSE NoGesture

Release ==
    \E event \in ReleaseEvents :
        /\ Handled(event, on_release(State, event))
        /\ gesture' = IF gesture.phase = "dragging"
                      THEN [gesture EXCEPT !.phase = "released"]
                      ELSE NoGesture

Key ==
    \E event \in KeyEvents :
        /\ Handled(event, onkey(State, event))
        /\ gesture' = NoGesture

\* interactive_pole_zero_plot(initial_poles, initial_zeros) up to plt.show():
\* the state dict is built and the initial redraw() has run
InitWith(initial_poles, initial_zeros) ==
    LET st == redraw([poles |-> initial_poles, zeros |-> initial_zeros,
                      log_scale |-> TRUE, dragging |-> NoDrag,
                      render |-> <<>>, redrawn |-> FALSE, raised |-> FALSE])
    IN  /\ poles = st.poles
        /\ zeros = st.zeros
        /\ log_scale = st.log_scale
        /\ dragging = st.dragging
        /\ render = st.render
        /\ ev = [kind |-> "init", inaxes |-> FALSE, button |-> 0, pos |-> CZero,
                 key |-> "", redrawn |-> st.redrawn, raised |-> st.raised]
        /\ gesture = NoGesture
        /\ call = NoCall

Init ==
    \E p \in SeqsUpTo(Picks, MaxRoots) :
    \E zs \in SeqsUpTo(Picks, MaxRoots - Len(p)) :
        InitWith(p, zs)

Next == Press \/ Motion \/ Release \/ Key

\* the interactive editor
Spec == Init /\ [][Next]_vars

\* direct calls of the evaluator, no editor running
EvalInit == InitWith(<<>>, <<>>)

EvalNext == Evaluate

EvalSpec == EvalInit /\ [][EvalNext]_vars

\* ------------------------------------------------------------------------
\* The transfer function as the specification states it

\* z_i, the unit-circle point of sample i
UnitCirclePoint(i) == exp_j(linspace(NumSamples)[i])

\* the product over the roots r of (1 - r/z)
RECURSIVE FactorProduct(_, _)
FactorProduct(roots, z) ==
    IF roots = <<>> THEN One
    ELSE CMul(CSub(One, CDiv(Head(roots), z)), FactorProduct(Tail(roots), z))

TransferFunction(p, zs, i) ==
    CDiv(FactorProduct(zs, UnitCirclePoint(i)), FactorProduct(p, UnitCirclePoint(i)))

AllFinite(roots) == \A k \in 1..Len(roots) : IsFinite(roots[k])

Samples == 1..NumSamples

\* sample i lies exactly on one of the poles
OnPole(p, i) == \E k \in 1..Len(p) : CEq(p[k], UnitCirclePoint(i))

\* ------------------------------------------------------------------------
\* Claims about get_frequency_response (specification EvalSpec)

\* C1: for every pair of pole and zero collections, both empty and exactly
\* one empty included, the returned w and H are sequences of one length,
\* the sample count.
C1_EqualLengths ==
    call.outcome = "returned" =>
        /\ call.w.shape = <<NumSamples>>
        /\ call.H.shape = <<NumSamples>>

\* C2: at every sample index i the returned H_i equals the product over the
\* zeros of (1 - zk/z_i) divided by the product over the poles of
\* (1 - pk/z_i), empty products being 1; so H_i = 1 everywhere for no poles
\* and no zeros, and H_i = 0 where a zero lies on z_i.
C2_ProductFormula ==
    call.outcome = "returned" =>
        /\ call.H.shape = <<NumSamples>>
        /\ \A i \in Samples :
             CEq(call.H.data[i], TransferFunction(call.poles, call.zeros, i))

\* The product formula at every sample of every returned array (all inputs
\* but the one with no poles and no zeros).
ProductFormulaOnArrays ==
    (call.outcome = "returned" /\ call.H.shape # <<>>) =>
        /\ call.H.shape = <<NumSamples>>
        /\ \A i \in Samples :
             CEq(call.H.data[i], TransferFunction(call.poles, call.zeros, i))

C8_InputsUnchanged ==
    call.outcome = "returned" =>
        /\ call.poles_after = call.poles
        /\ call.zeros_after = call.zeros

\* a call with two non-empty lists has returned
C8_Witness ==
    /\ call.outcome = "returned"
    /\ Len(call.poles) > 0 /\ Len(call.zeros) > 0
    /\ call.poles_after = call.poles
    /\ call.zeros_after = call.zeros

\* C9: the evaluator accepts a sample_count argument: a call passing a count
\* of at least 1 returns a grid and a response of that many samples, and a
\* call passing a count below 1 is signaled as an error.
C9_SampleCountAccepted ==
    (call.outcome # "none" /\ call.extra # <<>>) =>
        IF call.extra[1] < 1
        THEN call.outcome # "returned"
        ELSE /\ call.outcome = "returned"
             /\ call.w.shape = <<call.extra[1]>>
             /\ call.H.shape = <<call.extra[1]>>

\* C10: a call in which a pole or a zero is non-finite is signaled as an
\* error and returns no response.
C10_NonFiniteRejected ==
    (call.outcome # "none" /\ ~(AllFinite(call.poles) /\ AllFinite(call.zeros)))
        => call.outcome # "returned"

\* ------------------------------------------------------------------------
\* Claims about the interactive editor (specification Spec)

\* the two distances of the editor's contract: 0.1 and 0.05
ProximityThreshold == [n |-> 1, d |-> 10]

NegligibleDrag == [n |-> 1, d |-> 20]

Within(a, b, t) == AbsLess(CSub(a, b), t)

\* the figure shows exactly the current state: the markers are the current
\* poles and zeros, and the frequency axes hold the response of the current
\* collections when one of them is non-empty and the placeholder otherwise
RenderInSync ==
    /\ render.pole_markers = poles
    /\ render.zero_markers = zeros
    /\ render.evaluated = (poles # <<>> \/ zeros # <<>>)
    /\ render.freq =
         IF poles # <<>> \/ zeros # <<>>
         THEN [w |-> get_frequency_response(poles, zeros).w,
               H |-> get_frequency_response(poles, zeros).H,
               log |-> log_scale, message |-> FALSE]
         ELSE PlaceholderMessage(log_scale)

\* C4 as stated: every handler step that changes a collection (add,
\* reposition, remove, revert, clear) calls get_frequency_response on the
\* current collections and re-renders before it returns.
C4_EvaluatedAfterEveryChange ==
    [][(poles' # poles \/ zeros' # zeros) =>
           /\ ev'.redrawn
           /\ render'.evaluated
           /\ render'.pole_markers = poles'
           /\ render'.zero_markers = zeros']_vars

\* C4 as amended: after every event the figure shows the current state; the
\* redraw that follows a change calls get_frequency_response exactly when a
\* pole or a zero is left and shows the placeholder message otherwise.
C4_RenderFollowsState == RenderInSync

\* a motion event has repositioned the dragged element and redrawn it
C4_Witness ==
    /\ ev.kind = "motion" /\ ev.inaxes /\ ev.redrawn
    /\ gesture.phase = "dragging"
    /\ poles # gesture.poles \/ zeros # gesture.zeros
    /\ render.evaluated
    /\ RenderInSync

\* the release just handled ended a press-release click: same button, same
\* picked coordinate inside the axes, no motion event between
ClickDone ==
    /\ ev.kind = "release" /\ ev.inaxes
    /\ gesture.phase = "released"
    /\ gesture.motion = "none"
    /\ ev.pos = gesture.press.pos
    /\ ev.button = gesture.press.button

\* C5: a click within 0.1 of an existing pole (left button) or zero (right
\* button) removes that element from its collection.
C5_ClickNearRemoves ==
    ClickDone =>
        /\ ev.button = 1 =>
             \E i \in 1..Len(gesture.poles) :
                 /\ Within(gesture.poles[i], ev.pos, ProximityThreshold)
                 /\ poles = pop(gesture.poles, i)
        /\ ev.button = 3 =>
             \E i \in 1..Len(gesture.zeros) :
                 /\ Within(gesture.zeros[i], ev.pos, ProximityThreshold)
                 /\ zeros = pop(gesture.zeros, i)

\* C6: a drag started by a press near an element, continued by any motion
\* events and ended by a release outside the axes leaves both collections
\* exactly as they were before the press.
C6_ReleaseOutsideReverts ==
    (ev.kind = "release" /\ ~ev.inaxes /\ gesture.phase = "released") =>
        /\ poles = gesture.poles
        /\ zeros = gesture.zeros

\* the element was dragged inside the axes and the release outside restored it
C6_Witness ==
    /\ ev.kind = "release" /\ ~ev.inaxes /\ ev.redrawn
    /\ gesture.phase = "released"
    /\ gesture.motion = "inside"
    /\ poles = gesture.poles /\ zeros = gesture.zeros
    /\ render.pole_markers = gesture.poles

\* where the dragged element lay before the press that started the drag
DragStart ==
    IF dragging.type = "pole"
    THEN gesture.poles[dragging.index]
    ELSE gesture.zeros[dragging.index]

Conj(c) == [c EXCEPT !.im = -@]

Count(roots, c) == Cardinality({k \in 1..Len(roots) : roots[k] = c})

\* closed under complex conjugation, multiplicities included (the roots of
\* a polynomial with real coefficients)
ConjClosed(roots) ==
    \A k \in 1..Len(roots) : Count(roots, roots[k]) = Count(roots, Conj(roots[k]))

\* |a| = |b|, two singular samples counting as equal
SameMagnitude(a, b) ==
    IF a.d = 0 \/ b.d = 0 THEN a.d = b.d
    ELSE IF a.d = b.d THEN AbsSq(a).n = AbsSq(b).n
    ELSE AbsSq(a).n * AbsSq(b).d = AbsSq(b).n * AbsSq(a).d

\* the sample at the negated frequency of the symmetric grid
Mirror(i) == NumSamples + 1 - i

RemoveAt(list, i) == SubSeq(list, 1, i - 1) \o SubSeq(list, i + 1, Len(list))

\* list with element i (1-based) set to v, the others untouched
ReplaceAt(list, i, v) == [k \in 1..Len(list) |-> IF k = i THEN v ELSE list[k]]

\* the active drag points at an element of list
DragsInto(type, list) ==
    dragging.type = type /\ dragging.index \in 1..Len(list)

\* a step that leaves both collections as they are
CollectionsKept == poles' = poles /\ zeros' = zeros

\* C13: every event leaves the collections in their stored order: a press
\* changes nothing or appends the picked coordinate at the end of one
\* collection; a motion changes nothing or replaces the dragged index by the
\* picked coordinate; a release changes nothing, deletes the dragged index or
\* puts the start position back at the dragged index; a key changes nothing
\* or empties both collections.  Every other element keeps value and place.
C13_OrderPreserved ==
    [][/\ ev'.kind = "press" =>
            \/ CollectionsKept
            \/ poles' = Append(poles, ev'.pos) /\ zeros' = zeros
            \/ zeros' = Append(zeros, ev'.pos) /\ poles' = poles
       /\ ev'.kind = "motion" =>
            \/ CollectionsKept
            \/ /\ DragsInto("pole", poles)
               /\ poles' = ReplaceAt(poles, dragging.index, ev'.pos)
               /\ zeros' = zeros
            \/ /\ DragsInto("zero", zeros)
               /\ zeros' = ReplaceAt(zeros, dragging.index, ev'.pos)
               /\ poles' = poles
       /\ ev'.kind = "release" =>
            \/ CollectionsKept
            \/ /\ DragsInto("pole", poles)
               /\ zeros' = zeros
               /\ \/ poles' = RemoveAt(poles, dragging.index)
                  \/ poles' = ReplaceAt(poles, dragging.index, dragging.start_pos)
            \/ /\ DragsInto("zero", zeros)
               /\ poles' = poles
               /\ \/ zeros' = RemoveAt(zeros, dragging.index)
                  \/ zeros' = ReplaceAt(zeros, dragging.index, dragging.start_pos)
       /\ ev'.kind = "key" =>
            \/ CollectionsKept
            \/ poles' = <<>> /\ zeros' = <<>>]_vars

\* a click on the first of two poles removed it and left the second
C13_Witness ==
    /\ ev.kind = "release" /\ ev.inaxes
    /\ gesture.phase = "released"
    /\ gesture.press.button = 1
    /\ Len(gesture.poles) = 2
    /\ gesture.poles[1] # gesture.poles[2]
    /\ poles = <<gesture.poles[2]>>
    /\ zeros = gesture.zeros

\* C14: no press or release carrying the right button changes the poles, and
\* no press or release carrying the left button changes the zeros.
C14_ButtonsActOnOwnCollection ==
    [][ev'.kind \in {"press", "release"} =>
          /\ ev'.button = 3 => poles' = poles
          /\ ev'.button = 1 => zeros' = zeros]_vars

\* C15: a press outside the pole-zero axes changes neither collection, nor
\* the log-scale flag, nor the active drag, and redraws nothing.
C15_PressOutsideIgnored ==
    [][(ev'.kind = "press" /\ ~ev'.inaxes) =>
          /\ poles' = poles
          /\ zeros' = zeros
          /\ log_scale' = log_scale
          /\ dragging' = dragging
          /\ render' = render
          /\ ~ev'.redrawn]_vars

\* a press outside the axes was handled while a drag was active on a model
\* of two elements, and nothing was redrawn
C15_Witness ==
    /\ ev.kind = "press" /\ ~ev.inaxes /\ ~ev.redrawn
    /\ dragging.type # "none"
    /\ Len(poles) + Len(zeros) = 2

\* C16: an active drag's index is a valid index into the collection of its
\* type, and no handler has indexed or popped out of range.
C16_DragIndexValid ==
    /\ dragging.type = "pole" => dragging.index \in 1..Len(poles)
    /\ dragging.type = "zero" => dragging.index \in 1..Len(zeros)
    /\ ~ev.raised

\* C17: after a release event has been handled no drag is active.
C17_ReleaseEndsDrag ==
    ev.kind = "release" => (dragging = NoDrag /\ ~ev.raised)

\* C18: while a drag is active a press inside the axes leaves the drag's
\* type, index and start position as they are.
C18_PressKeepsDrag ==
    [][(dragging.type # "none" /\ ev'.kind = "press" /\ ev'.inaxes) =>
           dragging' = dragging]_vars

\* C19: what the last redraw left on the figure: get_frequency_response was
\* called exactly when a pole or a zero was there to draw; after a call the
\* frequency axes hold a curve over the whole grid, and without one they hold
\* the placeholder message and nothing else.
C19_EvaluatedIffNonEmpty ==
    /\ render.evaluated <=> (render.pole_markers # <<>> \/ render.zero_markers # <<>>)
    /\ render.evaluated =>
         /\ ~render.freq.message
         /\ render.freq.H.shape = <<NumSamples>>
    /\ ~render.evaluated => render.freq = PlaceholderMessage(render.freq.log)

\* the last element was removed by a release and the redraw that followed
\* showed the placeholder without a call
C19_Witness ==
    /\ ev.kind = "release" /\ ev.redrawn
    /\ gesture.phase = "released"
    /\ Len(gesture.poles) + Len(gesture.zeros) = 1
    /\ poles = <<>> /\ zeros = <<>>
    /\ ~render.evaluated
    /\ render.freq.message

====
